---- MODULE Spec2Model ----
(***************************************************************************)
(* Model of src/index.py: a Flask to-do API over one SQLModel table        *)
(* (TodoItem), a lazily run schema setup hook (before_request) and a       *)
(* translation endpoint backed by an external generative model.            *)
(*                                                                         *)
(* A request is served by a thread: the before_request hook                *)
(* (ensure_db_tables_exist) runs in three steps (flag test, create_all,    *)
(* flag store), then the route's handler runs as one action, then the      *)
(* response is delivered.                                                  *)
(***************************************************************************)
EXTENDS Integers, FiniteSets, Sequences, TLC

\* ------------------------------------------------------------------ bounds
MaxId == 2            \* rows the store's id sequence hands out in one run
MaxKeys == 2          \* keys of a JSON object body
NumThreads == 2       \* request threads of the process (SpecThreads)

\* ------------------------------------------------------------ program constants
PriorityMaxLength == 50     \* Field(max_length=50)

\* ------------------------------------------------------------------ values
\* One shape for every JSON and Python value: a tag, a string and a number.
Val(t, s, n) == [t |-> t, s |-> s, n |-> n]

JNull == Val("jnull", "", 0)
JStr(s) == Val("jstr", s, 0)
JBool(b) == Val("jbool", "", IF b THEN 1 ELSE 0)
JNum(n) == Val("jnum", "", n)

None == Val("None", "", 0)
PyStr(s) == Val("str", s, 0)
PyBool(b) == Val("bool", "", IF b THEN 1 ELSE 0)
PyInt(n) == Val("int", "", n)
PyDate(ord) == Val("date", "", ord)      \* ord = year*10000 + month*100 + day

\* ISO calendar dates the model knows, with the date each one parses to.
IsoTable == [s \in {"2024-02-29"} |-> 20240229]

Ok(v) == [ok |-> TRUE, v |-> v]
Err == [ok |-> FALSE, v |-> None]

\* pydantic field validators (lax mode, JSON-decoded input).
ValidateStr(j) == IF j.t = "jstr" THEN Ok(PyStr(j.s)) ELSE Err
ValidateBool(j) ==
    IF j.t = "jbool" THEN Ok(PyBool(j.n = 1))
    ELSE IF j.t = "jnum" /\ j.n \in {0, 1} THEN Ok(PyBool(j.n = 1))
    ELSE Err
ValidateDate(j) ==
    IF j.t = "jstr" /\ j.s \in DOMAIN IsoTable THEN Ok(PyDate(IsoTable[j.s])) ELSE Err
\* Optional[...] fields take null as None.
OptStr(j) == IF j.t = "jnull" THEN Ok(None) ELSE ValidateStr(j)
OptBool(j) == IF j.t = "jnull" THEN Ok(None) ELSE ValidateBool(j)
OptDate(j) == IF j.t = "jnull" THEN Ok(None) ELSE ValidateDate(j)

\* model_dump(mode='json') of one field value.
ToJson(v) ==
    CASE v.t = "None" -> JNull
      [] v.t = "str" -> JStr(v.s)
      [] v.t = "bool" -> JBool(v.n = 1)
      [] v.t = "int" -> JNum(v.n)
      [] v.t = "date" -> JStr(CHOOSE s \in DOMAIN IsoTable : IsoTable[s] = v.n)

\* ------------------------------------------------------------ request bodies
\* request.json yields: an exception (no JSON content type, or malformed JSON), a
\* JSON value that is no object (null, a list, a number), or an object.
LongPriority == "123456789012345678901234567890123456789012345678901"

TodoKeys == {"title", "description", "completed", "priority", "due_date", "id"}
TranslateKeys == {"text", "target_language"}

JsonValues(k) ==
    CASE k = "title" -> {JStr("Buy milk"), JStr(""), JNull, JNum(5)}
      [] k = "description" -> {JStr("2 litres"), JNull}
      [] k = "completed" -> {JBool(TRUE), JBool(FALSE), JNull}
      [] k = "priority" -> {JStr("high"), JNull, JStr(LongPriority)}
      [] k = "due_date" -> {JStr("2024-02-29"), JNull}
      [] k = "id" -> {JNum(7)}
      [] k = "text" -> {JStr("hello"), JNum(5)}
      [] k = "target_language" -> {JStr("French")}

AllJsonValues == UNION {JsonValues(k) : k \in TodoKeys \cup TranslateKeys}

Objects(keys) ==
    UNION {{o \in [ks -> AllJsonValues] : \A k \in ks : o[k] \in JsonValues(k)} :
           ks \in {x \in SUBSET keys : Cardinality(x) <= MaxKeys}}

\* NoJson: werkzeug raises BadRequest (400) or UnsupportedMediaType (415) from
\* request.json; both reach the client as Flask's HTML error page.
NoJson == [kind |-> "nojson", obj |-> <<>>]
NonObject == [kind |-> "nonobject", obj |-> <<>>]
ObjectBody(o) == [kind |-> "object", obj |-> o]

TodoBodies == {NoJson, NonObject} \cup {ObjectBody(o) : o \in Objects(TodoKeys)}
TranslateBodies == {NoJson, NonObject} \cup {ObjectBody(o) : o \in Objects(TranslateKeys)}

\* ------------------------------------------------------------------ models
RowFields == {"id", "title", "description", "completed", "priority", "due_date"}
UpdateFields == {"title", "description", "completed", "priority", "due_date"}

Valid(m) == [ok |-> TRUE, m |-> m]
Invalid == [ok |-> FALSE, m |-> <<>>]

\* A key the body does not carry: a required field is missing, an optional one
\* takes its default (None).
Missing(required) == IF required THEN Err ELSE Ok(None)

\* TodoItemCreate(**todo_data): keys it does not declare are ignored.
TodoItemCreate(o) ==
    LET title == IF "title" \in DOMAIN o THEN ValidateStr(o["title"]) ELSE Missing(TRUE)
        description ==
            IF "description" \in DOMAIN o THEN OptStr(o["description"]) ELSE Missing(FALSE)
        priority ==
            IF "priority" \in DOMAIN o THEN OptStr(o["priority"]) ELSE Missing(FALSE)
        due_date ==
            IF "due_date" \in DOMAIN o THEN OptDate(o["due_date"]) ELSE Missing(FALSE)
    IN IF title.ok /\ description.ok /\ priority.ok /\ due_date.ok
       THEN Valid([title |-> title.v, description |-> description.v,
                   priority |-> priority.v, due_date |-> due_date.v])
       ELSE Invalid

\* Mutant: completed declared Optional[bool] = None, as in TodoItemUpdate.
TodoItem_CompletedNone(m) ==
    IF m.priority.t = "str" /\ Len(m.priority.s) > PriorityMaxLength
    THEN Invalid
    ELSE Valid([id |-> None, title |-> m.title, description |-> m.description,
                completed |-> None, priority |-> m.priority,
                due_date |-> m.due_date])

\* The table model's fields; id stays None until the store assigns it.
TodoItem(m) ==
    IF m.priority.t = "str" /\ Len(m.priority.s) > PriorityMaxLength
    THEN Invalid
    ELSE Valid([id |-> None, title |-> m.title, description |-> m.description,
                completed |-> PyBool(FALSE), priority |-> m.priority,
                due_date |-> m.due_date])

\* TodoItemUpdate(**todo_data).model_dump(exclude_unset=True): the declared keys the
\* body carries, validated.
TodoItemUpdate(o) ==
    LET set == DOMAIN o \cap UpdateFields
        v(k) == CASE k = "title" -> OptStr(o[k])
                  [] k = "description" -> OptStr(o[k])
                  [] k = "completed" -> OptBool(o[k])
                  [] k = "priority" -> OptStr(o[k])
                  [] k = "due_date" -> OptDate(o[k])
    IN IF \A k \in set : v(k).ok THEN Valid([k \in set |-> v(k).v]) ELSE Invalid

\* Mutant: model_dump() without exclude_unset, so omitted keys are written as None.
SetAttrs_Unset(todo, update_data) ==
    [k \in RowFields |->
        IF k \in DOMAIN update_data THEN update_data[k]
        ELSE IF k \in UpdateFields THEN None ELSE todo[k]]

\* for key, value in update_data.items(): setattr(todo, key, value)
SetAttrs(todo, update_data) ==
    [k \in RowFields |-> IF k \in DOMAIN update_data THEN update_data[k] ELSE todo[k]]

\* TranslationRequest(**request_data)
TranslationRequest(o) ==
    LET text == IF "text" \in DOMAIN o THEN ValidateStr(o["text"]) ELSE Missing(TRUE)
        target_language ==
            IF "target_language" \in DOMAIN o THEN ValidateStr(o["target_language"])
            ELSE Missing(TRUE)
    IN IF text.ok /\ target_language.ok
       THEN Valid([text |-> text.v, target_language |-> target_language.v])
       ELSE Invalid

\* todo.model_dump(mode='json')
ModelDump(row) == [k \in RowFields |-> ToJson(row[k])]

\* ------------------------------------------------------------------ store
\* The todoitem table as the database keeps it: id is the primary key (NOT NULL),
\* title and completed are NOT NULL, priority is VARCHAR(50).
RowAccepted(row) ==
    /\ row.id.t = "int"
    /\ row.title.t = "str"
    /\ row.completed.t = "bool"
    /\ row.priority.t = "str" => Len(row.priority.s) <= PriorityMaxLength

\* Mutant: an id one more than the largest stored one, which hands a deleted id
\* out again.
NextVal_MaxPlusOne(tbl, seq) ==
    IF tbl = {} THEN 1
    ELSE (CHOOSE r \in tbl : \A q \in tbl : q.id.n <= r.id.n).id.n + 1

\* The id the store assigns to a row inserted with id None: the next value of the
\* table's sequence.
NextVal(tbl, seq) == seq

\* session.get(TodoItem, todo_id): the rows with that primary key.
Get(tbl, todo_id) == {r \in tbl : r.id = PyInt(todo_id)}

\* rows as select(TodoItem) returns them, here in primary-key order.
RECURSIVE All(_)
All(tbl) ==
    IF tbl = {} THEN <<>>
    ELSE LET first == CHOOSE r \in tbl : \A q \in tbl : r.id.n <= q.id.n
         IN <<first>> \o All(tbl \ {first})

\* ------------------------------------------------------------------ responses
\* status, content kind ("json", "html" for Flask's own error page, "empty"),
\* the detail message of an error body, the TodoItem objects of a success body,
\* the translated text, and the state of the session the handler acquired
\* ("none" when it acquired none).
Response(status, kind, detail, items, text) ==
    [status |-> status, kind |-> kind, detail |-> detail, items |-> items,
     text |-> text, session |-> "none"]

Json(status, items) == Response(status, "json", "", items, "")
Detail(status, message) == Response(status, "json", message, <<>>, "")
Html(status) == Response(status, "html", "", <<>>, "")
Empty(status) == Response(status, "empty", "", <<>>, "")

\* What a handler leaves behind: its response, the table, the id sequence, and
\* whether it called the translation backend.
Outcome(r, tbl, seq) == [resp |-> r, store |-> tbl, next_id |-> seq, called |-> FALSE]

\* session = next(get_session())
Acquired(o) == [o EXCEPT !.resp.session = "open"]

\* Mutant: the session is closed on the success path only.
SessionClose_OnSuccess(o) ==
    IF o.resp.session = "open" /\ o.resp.status < 400
    THEN [o EXCEPT !.resp.session = "closed"]
    ELSE o

\* finally: session.close()
SessionClose(o) ==
    IF o.resp.session = "open" THEN [o EXCEPT !.resp.session = "closed"] ELSE o

\* ------------------------------------------------------------------ handlers
\* db is what the store does with this request's statements: "ok", or the
\* exception they raise.

\* GET /api/todos: no except clause, so a store exception leaves the handler and
\* Flask answers with its own 500 page.
get_all_todos_flask(tbl, seq, db) ==
    SessionClose(Acquired(
        IF db # "ok" THEN Outcome(Html(500), tbl, seq)
        ELSE Outcome(Json(200, [i \in 1..Cardinality(tbl) |-> ModelDump(All(tbl)[i])]),
                     tbl, seq)))

\* POST /api/todos: request.json is read outside the try.
create_todo_flask(tbl, seq, body, db) ==
    IF body.kind = "nojson" THEN Outcome(Html(400), tbl, seq)
    ELSE IF body.kind = "nonobject"
    THEN Outcome(Detail(400, "Failed to create todo: TypeError"), tbl, seq)
    ELSE LET todo_create == TodoItemCreate(body.obj) IN
    IF ~todo_create.ok
    THEN Outcome(Detail(400, "Failed to create todo: ValidationError"), tbl, seq)
    ELSE LET db_todo == TodoItem(todo_create.m) IN
    IF ~db_todo.ok
    THEN Outcome(Detail(400, "Failed to create todo: ValidationError"), tbl, seq)
    ELSE SessionClose(Acquired(
        IF db # "ok"
        THEN Outcome(Detail(400, "Failed to create todo: " \o db), tbl, seq)
        ELSE LET row == [db_todo.m EXCEPT !.id = PyInt(NextVal(tbl, seq))] IN
             IF ~RowAccepted(row) \/ Get(tbl, row.id.n) # {}
             THEN Outcome(Detail(400, "Failed to create todo: IntegrityError"),
                          tbl, seq + 1)
             ELSE Outcome(Json(201, <<ModelDump(row)>>), tbl \cup {row}, seq + 1)))

\* PUT /api/todos/<todo_id>
update_todo_flask(tbl, seq, todo_id, body, db) ==
    IF body.kind = "nojson" THEN Outcome(Html(400), tbl, seq)
    ELSE SessionClose(Acquired(
        IF db # "ok"
        THEN Outcome(Detail(500, "Failed to update todo: " \o db), tbl, seq)
        ELSE IF Get(tbl, todo_id) = {}
        THEN Outcome(Detail(404, "To-Do item not found"), tbl, seq)
        ELSE IF body.kind = "nonobject"
        THEN Outcome(Detail(500, "Failed to update todo: TypeError"), tbl, seq)
        ELSE LET todo_update == TodoItemUpdate(body.obj) IN
        IF ~todo_update.ok
        THEN Outcome(Detail(500, "Failed to update todo: ValidationError"), tbl, seq)
        ELSE LET todo == CHOOSE r \in Get(tbl, todo_id) : TRUE
                 new == SetAttrs(todo, todo_update.m)
             IN IF ~RowAccepted(new)
                THEN Outcome(Detail(500, "Failed to update todo: IntegrityError"),
                             tbl, seq)
                ELSE Outcome(Json(200, <<ModelDump(new)>>),
                             (tbl \ {todo}) \cup {new}, seq)))

\* Mutant: the delete statement loses its WHERE clause.
delete_todo_flask_all(tbl, seq, todo_id, db) ==
    SessionClose(Acquired(
        IF db # "ok"
        THEN Outcome(Detail(500, "Failed to delete todo: " \o db), tbl, seq)
        ELSE IF Get(tbl, todo_id) = {}
        THEN Outcome(Detail(404, "To-Do item not found"), tbl, seq)
        ELSE Outcome(Empty(204), {}, seq)))

\* DELETE /api/todos/<todo_id>
delete_todo_flask(tbl, seq, todo_id, db) ==
    SessionClose(Acquired(
        IF db # "ok"
        THEN Outcome(Detail(500, "Failed to delete todo: " \o db), tbl, seq)
        ELSE IF Get(tbl, todo_id) = {}
        THEN Outcome(Detail(404, "To-Do item not found"), tbl, seq)
        ELSE Outcome(Empty(204), tbl \ Get(tbl, todo_id), seq)))

\* Mutant: the body is read and validated before gemini_model is tested.
translate_text_flask_body_first(tbl, seq, model, body, gen) ==
    IF body.kind = "nojson" THEN Outcome(Html(400), tbl, seq)
    ELSE IF body.kind = "nonobject" \/ ~TranslationRequest(body.obj).ok
    THEN Outcome(Detail(500, "Failed to translate text: ValidationError"), tbl, seq)
    ELSE IF ~model
    THEN Outcome(Detail(503, "Translation service not available. API key might be missing or invalid."),
                 tbl, seq)
    ELSE [Outcome(IF gen = "ok"
                  THEN Response(200, "json", "", <<>>, "translated")
                  ELSE Detail(500, "Failed to translate text: " \o gen),
                  tbl, seq)
          EXCEPT !.called = TRUE]

\* POST /api/translate: model is gemini_model (configured or None), gen is what
\* generate_content does ("ok" or the exception it raises).
translate_text_flask(tbl, seq, model, body, gen) ==
    IF ~model
    THEN Outcome(Detail(503, "Translation service not available. API key might be missing or invalid."),
                 tbl, seq)
    ELSE IF body.kind = "nojson" THEN Outcome(Html(400), tbl, seq)
    ELSE IF body.kind = "nonobject"
    THEN Outcome(Detail(500, "Failed to translate text: TypeError"), tbl, seq)
    ELSE LET translation_request == TranslationRequest(body.obj) IN
    IF ~translation_request.ok
    THEN Outcome(Detail(500, "Failed to translate text: ValidationError"), tbl, seq)
    ELSE [Outcome(IF gen = "ok"
                  THEN Response(200, "json", "", <<>>, "translated")
                  ELSE Detail(500, "Failed to translate text: " \o gen),
                  tbl, seq)
          EXCEPT !.called = TRUE]

\* ------------------------------------------------------------------ state
VARIABLES
    gemini_model,     \* TRUE: a GenerativeModel; FALSE: None (module level, lines 17-27)
    db_initialized,   \* hasattr(app, 'db_initialized')
    tables,           \* the todoitem table exists in the database
    store,            \* the rows of the todoitem table
    next_id,          \* the next value of the table's id sequence
    pc,               \* per thread: "idle", "setup", "setflag", "handler", "done"
    route,            \* per thread: the route of the request it serves
    resp,             \* per thread: the response of the request it has just served
    backend_called,   \* generate_content has been called
    open_sessions,    \* threads that returned from a handler leaving its session open
    live,             \* history: ids created with 201 and not deleted with 204
    deleted           \* history: ids deleted with 204

vars == <<gemini_model, db_initialized, tables, store, next_id, pc, route, resp,
          backend_called, open_sessions, live, deleted>>

Threads == 1..NumThreads
MainThread == 1
Ids == 1..MaxId
Routes == {"list", "create", "update", "delete", "translate"}

NoResp == [ep |-> "none", id |-> 0] @@ Response(0, "empty", "", <<>>, "")
Served(ep, id, r) == [ep |-> ep, id |-> id] @@ r

\* The process starts with DATABASE_URL set (line 33 raises otherwise) and with or
\* without GOOGLE_API_KEY.
Init ==
    /\ gemini_model \in BOOLEAN
    /\ db_initialized = FALSE
    /\ tables = FALSE
    /\ store = {}
    /\ next_id = 1
    /\ pc = [w \in Threads |-> "idle"]
    /\ route = [w \in Threads |-> "none"]
    /\ resp = [w \in Threads |-> NoResp]
    /\ backend_called = FALSE
    /\ open_sessions = {}
    /\ live = {}
    /\ deleted = {}

\* What the store does with a handler's statements.
Db(up) == IF ~up THEN "OperationalError" ELSE IF ~tables THEN "ProgrammingError" ELSE "ok"

\* A request for route r arrives at thread w; before_request tests the flag
\* (line 55).
Begin(w, r) ==
    /\ pc[w] = "idle"
    /\ route' = [route EXCEPT ![w] = r]
    /\ pc' = [pc EXCEPT ![w] = IF db_initialized THEN "handler" ELSE "setup"]
    /\ UNCHANGED <<gemini_model, db_initialized, tables, store, next_id, resp,
                   backend_called, open_sessions, live, deleted>>

\* Mutant: the flag is stored before create_all is called, so a failed create_all
\* leaves it set.
Setup_FlagFirst(w, up) ==
    /\ pc[w] = "setup"
    /\ db_initialized' = TRUE
    /\ IF up
       THEN /\ tables' = TRUE
            /\ pc' = [pc EXCEPT ![w] = "setflag"]
            /\ resp' = resp
       ELSE /\ tables' = tables
            /\ pc' = [pc EXCEPT ![w] = "done"]
            /\ resp' = [resp EXCEPT ![w] = Served("before_request", 0, Html(500))]
    /\ UNCHANGED <<gemini_model, store, next_id, route,
                   backend_called, open_sessions, live, deleted>>

\* create_db_and_tables (line 56): create_all succeeds, or raises; the exception
\* leaves before_request and the request ends with Flask's 500 page.
Setup(w, up) ==
    /\ pc[w] = "setup"
    /\ IF up
       THEN /\ tables' = TRUE
            /\ pc' = [pc EXCEPT ![w] = "setflag"]
            /\ resp' = resp
       ELSE /\ tables' = tables
            /\ pc' = [pc EXCEPT ![w] = "done"]
            /\ resp' = [resp EXCEPT ![w] = Served("before_request", 0, Html(500))]
    /\ UNCHANGED <<gemini_model, db_initialized, store, next_id, route,
                   backend_called, open_sessions, live, deleted>>

\* app.db_initialized = True (line 57)
SetFlag(w) ==
    /\ pc[w] = "setflag"
    /\ db_initialized' = TRUE
    /\ pc' = [pc EXCEPT ![w] = "handler"]
    /\ UNCHANGED <<gemini_model, tables, store, next_id, route, resp,
                   backend_called, open_sessions, live, deleted>>

\* The handler of thread w's route has run with outcome o.
Handled(w, ep, id, o) ==
    /\ pc[w] = "handler"
    /\ route[w] = ep
    /\ pc' = [pc EXCEPT ![w] = "done"]
    /\ resp' = [resp EXCEPT ![w] = Served(ep, id, o.resp)]
    /\ store' = o.store
    /\ next_id' = o.next_id
    /\ backend_called' = (backend_called \/ o.called)
    /\ open_sessions' =
           IF o.resp.session = "open" THEN open_sessions \cup {w} ELSE open_sessions
    /\ UNCHANGED <<gemini_model, db_initialized, tables, route>>

GetAllTodos(w, up) ==
    /\ Handled(w, "list", 0, get_all_todos_flask(store, next_id, Db(up)))
    /\ UNCHANGED <<live, deleted>>

CreateTodo(w, body, up) ==
    /\ next_id <= MaxId
    /\ LET o == create_todo_flask(store, next_id, body, Db(up)) IN
       /\ Handled(w, "create", 0, o)
       /\ live' = IF o.resp.status = 201 THEN live \cup {o.resp.items[1].id.n} ELSE live
    /\ UNCHANGED deleted

UpdateTodo(w, todo_id, body, up) ==
    /\ Handled(w, "update", todo_id,
               update_todo_flask(store, next_id, todo_id, body, Db(up)))
    /\ UNCHANGED <<live, deleted>>

DeleteTodo(w, todo_id, up) ==
    LET o == delete_todo_flask(store, next_id, todo_id, Db(up)) IN
    /\ Handled(w, "delete", todo_id, o)
    /\ live' = IF o.resp.status = 204 THEN live \ {todo_id} ELSE live
    /\ deleted' = IF o.resp.status = 204 THEN deleted \cup {todo_id} ELSE deleted

Translate(w, body, gen) ==
    /\ Handled(w, "translate", 0,
               translate_text_flask(store, next_id, gemini_model, body, gen))
    /\ UNCHANGED <<live, deleted>>

\* The response is sent and the thread is free again.
Return(w) ==
    /\ pc[w] = "done"
    /\ pc' = [pc EXCEPT ![w] = "idle"]
    /\ route' = [route EXCEPT ![w] = "none"]
    /\ resp' = [resp EXCEPT ![w] = NoResp]
    /\ UNCHANGED <<gemini_model, db_initialized, tables, store, next_id,
                   backend_called, open_sessions, live, deleted>>

GenOutcomes == {"ok", "ResourceExhausted"}

\* One process serving one request at a time.
Next ==
    \E w \in {MainThread} :
        \/ \E r \in Routes : Begin(w, r)
        \/ \E up \in BOOLEAN : Setup(w, up)
        \/ SetFlag(w)
        \/ \E up \in BOOLEAN : GetAllTodos(w, up)
        \/ \E body \in TodoBodies, up \in BOOLEAN : CreateTodo(w, body, up)
        \/ \E id \in Ids, body \in TodoBodies, up \in BOOLEAN : UpdateTodo(w, id, body, up)
        \/ \E id \in Ids, up \in BOOLEAN : DeleteTodo(w, id, up)
        \/ \E body \in TranslateBodies, gen \in GenOutcomes : Translate(w, body, gen)
        \/ Return(w)

Spec == Init /\ [][Next]_vars

\* ------------------------------------------------------------ threaded process
\* Several threads of one process, racing through the before_request hook; the
\* requests they serve carry one body per route.
NewTodo == ObjectBody([k \in {"title"} |-> JStr("Buy milk")])
Complete == ObjectBody([k \in {"completed"} |-> JBool(TRUE)])
Hello == ObjectBody([k \in TranslateKeys |-> IF k = "text" THEN JStr("hello") ELSE JStr("French")])

NextThreads ==
    \E w \in Threads :
        \/ \E r \in Routes : Begin(w, r)
        \/ \E up \in BOOLEAN : Setup(w, up)
        \/ SetFlag(w)
        \/ \E up \in BOOLEAN : GetAllTodos(w, up)
        \/ \E up \in BOOLEAN : CreateTodo(w, NewTodo, up)
        \/ \E id \in Ids, up \in BOOLEAN : UpdateTodo(w, id, Complete, up)
        \/ \E id \in Ids, up \in BOOLEAN : DeleteTodo(w, id, up)
        \/ \E gen \in GenOutcomes : Translate(w, Hello, gen)
        \/ Return(w)

SpecThreads == Init /\ [][NextThreads]_vars

\* ==================================================================== claims
AtHandler(w, r) == pc[w] = "handler" /\ route[w] = r
Done(w, ep) == pc[w] = "done" /\ resp[w].ep = ep
IsObject(body) == body.kind = "object"
Has(body, k) == IsObject(body) /\ k \in DOMAIN body.obj
StoredIds(tbl) == {r.id.n : r \in tbl}

\* C9: with the store working, a create request whose body sets only title
\* (possibly next to keys the create model does not declare, such as completed
\* or id) is answered 201 and stores
\* one new row with the id the store assigns, the given title, completed = false
\* and description, priority and due_date null; a completed key in any create
\* body changes neither the response nor the stored row.
C9_CreateDefaults ==
    \A w \in Threads : AtHandler(w, "create") =>
        \A body \in TodoBodies :
            /\ (/\ Has(body, "title")
                /\ body.obj["title"].t = "jstr"
                /\ DOMAIN body.obj \subseteq {"title", "completed", "id"})
               => LET o == create_todo_flask(store, next_id, body, Db(TRUE))
                      item == [id |-> JNum(next_id), title |-> body.obj["title"],
                               description |-> JNull, completed |-> JBool(FALSE),
                               priority |-> JNull, due_date |-> JNull]
                  IN /\ o.resp.status = 201
                     /\ o.resp.kind = "json"
                     /\ o.resp.items = <<item>>
                     /\ next_id \notin StoredIds(store)
                     /\ \E row \in o.store :
                            /\ ModelDump(row) = item
                            /\ o.store = store \cup {row}
                            /\ row \notin store
            /\ Has(body, "completed")
               => LET without == ObjectBody([k \in DOMAIN body.obj \ {"completed"} |->
                                                 body.obj[k]])
                  IN create_todo_flask(store, next_id, body, Db(TRUE))
                         = create_todo_flask(store, next_id, without, Db(TRUE))

\* C9 witness: the spec's scenario, POST {"title": "Buy milk"} answered 201 with
\* id 1 and the defaults, the row being in the store.
C9_Witness ==
    /\ Done(MainThread, "create")
    /\ resp[MainThread].status = 201
    /\ resp[MainThread].items =
           <<[id |-> JNum(1), title |-> JStr("Buy milk"), description |-> JNull,
              completed |-> JBool(FALSE), priority |-> JNull, due_date |-> JNull]>>
    /\ \E row \in store : ModelDump(row) = resp[MainThread].items[1]

\* C8 (the claim as stated): a create request answered 201 never carries an
\* empty title, and no stored row has one.
C8_NonEmptyTitle ==
    /\ \A w \in Threads :
           (Done(w, "create") /\ resp[w].status = 201)
               => resp[w].items[1].title # JStr("")
    /\ \A row \in store : row.title # PyStr("")

\* C4 (the claim as stated): every error response a route's handler produces is
\* a JSON body {detail: <message>}.
C4_StructuredErrors ==
    \A w \in Threads :
        (pc[w] = "done" /\ resp[w].ep \in Routes /\ resp[w].status >= 400)
            => (resp[w].kind = "json" /\ resp[w].detail # "")

\* C5 (the claim as stated): a body that fails validation is answered 400 on
\* create, update and translate.
ValidationDetails ==
    {"Failed to create todo: TypeError", "Failed to create todo: ValidationError",
     "Failed to update todo: TypeError", "Failed to update todo: ValidationError",
     "Failed to translate text: TypeError", "Failed to translate text: ValidationError"}

C5_Validation400 ==
    \A w \in Threads :
        (pc[w] = "done" /\ resp[w].detail \in ValidationDetails) => resp[w].status = 400

\* The update of row old into row new wrote exactly the mutable keys obj carries.
Overwrites(old, new, obj) ==
    /\ new.id = old.id
    /\ \A k \in UpdateFields :
           IF k \in DOMAIN obj THEN ToJson(new[k]) = obj[k] ELSE new[k] = old[k]

\* tbl2 is tbl with the row of todo_id rewritten by obj, every other row as it was.
Rewritten(tbl, tbl2, todo_id, obj) ==
    /\ Cardinality(Get(tbl2, todo_id)) = 1
    /\ \A old \in Get(tbl, todo_id), new \in Get(tbl2, todo_id) : Overwrites(old, new, obj)
    /\ tbl2 \ Get(tbl2, todo_id) = tbl \ Get(tbl, todo_id)

\* The row the store would refuse: title or completed null, or a priority of more
\* than 50 characters.
Refused(obj) ==
    \/ "title" \in DOMAIN obj /\ obj["title"] = JNull
    \/ "completed" \in DOMAIN obj /\ obj["completed"] = JNull
    \/ "priority" \in DOMAIN obj /\ obj["priority"] = JStr(LongPriority)

\* C1 (the claim as stated): every update of an existing id, with a well-typed
\* object body and a working store, overwrites exactly the keys present, null
\* values included.
C1_Original ==
    \A w \in Threads : AtHandler(w, "update") =>
        \A id \in StoredIds(store), body \in TodoBodies :
            (IsObject(body) /\ TodoItemUpdate(body.obj).ok)
                => Rewritten(store, update_todo_flask(store, next_id, id, body, Db(TRUE)).store,
                             id, body.obj)

\* C1 (amended): an update of an existing id answered 200 overwrites exactly the
\* mutable keys its body carries (null included for description, priority and
\* due_date) and changes neither the id, nor the omitted fields, nor any other
\* row; an empty body returns the item unchanged; every update not answered 200
\* leaves the store unchanged. With a working store, a well-typed object body is
\* answered 200 unless it sets title or completed to null or priority to more
\* than 50 characters, and then it is answered 500.
C1_PartialUpdate ==
    \A w \in Threads : AtHandler(w, "update") =>
        \A id \in StoredIds(store), body \in TodoBodies, up \in BOOLEAN :
            LET o == update_todo_flask(store, next_id, id, body, Db(up)) IN
            /\ o.next_id = next_id
            /\ IF o.resp.status = 200
               THEN /\ IsObject(body)
                    /\ Rewritten(store, o.store, id, body.obj)
                    /\ o.resp.items = <<ModelDump(CHOOSE r \in Get(o.store, id) : TRUE)>>
                    /\ DOMAIN body.obj \cap UpdateFields = {} => o.store = store
               ELSE o.store = store
            /\ (up /\ IsObject(body) /\ TodoItemUpdate(body.obj).ok)
               => o.resp.status = IF Refused(body.obj) THEN 500 ELSE 200

\* C1 witness: an update answered 200 has set completed and left a description
\* written earlier in place, next to another row that still has its defaults.
C1_Witness ==
    /\ Done(MainThread, "update")
    /\ resp[MainThread].status = 200
    /\ \E r \in store :
           /\ r.id.n = resp[MainThread].id
           /\ r.completed = PyBool(TRUE)
           /\ r.description = PyStr("2 litres")
           /\ r.title = PyStr("Buy milk")
    /\ \E q \in store : q.id.n # resp[MainThread].id /\ q.completed = PyBool(FALSE)

\* C2: the ids of the stored rows are present and pairwise distinct, the stored
\* rows are exactly the items created with 201 and not deleted with 204 since,
\* and a listing answered 200 returns exactly these items, each once (listing
\* is answered 200 whenever the store is working).
C2_ListExactlyLive ==
    /\ \A r \in store : r.id.t = "int"
    /\ \A r, q \in store : r.id = q.id => r = q
    /\ StoredIds(store) = live
    /\ \A w \in Threads :
           /\ (Done(w, "list") /\ resp[w].status = 200)
              => LET items == resp[w].items IN
                 /\ Len(items) = Cardinality(live)
                 /\ {items[i].id : i \in 1..Len(items)} = {JNum(n) : n \in live}
                 /\ \A i \in 1..Len(items) : \E r \in store : items[i] = ModelDump(r)
           /\ AtHandler(w, "list")
              => get_all_todos_flask(store, next_id, Db(TRUE)).resp.status = 200

\* C2 witness: a listing of one item, after two were created and one deleted.
C2_Witness ==
    /\ Done(MainThread, "list")
    /\ resp[MainThread].status = 200
    /\ Len(resp[MainThread].items) = 1
    /\ deleted # {}
    /\ next_id = 3

\* C3 (the claim as stated): after a delete answered 204, every later update or
\* delete of that id is answered 404 (the store working).
C3_Original ==
    \A w \in Threads, id \in deleted :
        /\ AtHandler(w, "delete")
           => delete_todo_flask(store, next_id, id, Db(TRUE)).resp.status = 404
        /\ AtHandler(w, "update")
           => \A body \in TodoBodies :
                  update_todo_flask(store, next_id, id, body, Db(TRUE)).resp.status = 404

\* C3 (amended): with the store working, deleting an id that is not stored is
\* answered 404 and changes nothing; deleting a stored id is answered 204 and
\* removes that row and no other. An id deleted with 204 is never stored again
\* and never listed; every later delete of it, and every later update of it
\* whose body can be read as JSON, is answered 404. (An update whose body cannot
\* be read as JSON is answered 400 before the row is looked up.)
C3_DeletePermanent ==
    /\ \A id \in deleted : Get(store, id) = {}
    /\ \A w \in Threads :
        /\ AtHandler(w, "delete")
           => \A id \in Ids :
                  LET o == delete_todo_flask(store, next_id, id, Db(TRUE)) IN
                  /\ o.next_id = next_id
                  /\ IF Get(store, id) = {}
                     THEN o.resp.status = 404 /\ o.store = store
                     ELSE /\ o.resp.status = 204
                          /\ o.store = {r \in store : r.id # PyInt(id)}
                          /\ o.store # store
        /\ AtHandler(w, "update")
           => \A id \in deleted, body \in TodoBodies \ {NoJson} :
                  LET o == update_todo_flask(store, next_id, id, body, Db(TRUE)) IN
                  o.resp.status = 404 /\ o.store = store
        /\ AtHandler(w, "list")
           => LET items == get_all_todos_flask(store, next_id, Db(TRUE)).resp.items IN
              \A i \in 1..Len(items) : items[i].id.n \notin deleted

\* C3 witness: a delete of an id deleted before has been answered 404, another
\* row still being stored.
C3_Witness ==
    /\ Done(MainThread, "delete")
    /\ resp[MainThread].status = 404
    /\ resp[MainThread].id \in deleted
    /\ store # {}

\* C6: no handler returns with the session it acquired still open, whatever the
\* exit path (success, not found, validation error, exception), so no session
\* is left open after any sequence of requests; the handlers that reach the
\* store do acquire one.
C6_SessionsClosed ==
    /\ open_sessions = {}
    /\ \A w \in Threads : pc[w] = "done" =>
        /\ resp[w].session \in {"none", "closed"}
        /\ resp[w].ep \in {"list", "delete"} => resp[w].session = "closed"
        /\ (resp[w].ep = "update" /\ resp[w].kind = "json") => resp[w].session = "closed"
        /\ (resp[w].ep = "create" /\ resp[w].status = 201) => resp[w].session = "closed"

\* C6 witness: an update that ended in an exception at commit (the store refused
\* the row) has returned with its session closed.
C6_Witness ==
    /\ Done(MainThread, "update")
    /\ resp[MainThread].detail = "Failed to update todo: IntegrityError"
    /\ resp[MainThread].session = "closed"

\* C7 (the claim as stated): with no backend credential at startup every
\* translate request is answered 503 {detail}.
C7_Original ==
    \A w \in Threads :
        (~gemini_model /\ pc[w] = "done" /\ route[w] = "translate")
            => (resp[w].status = 503 /\ resp[w].kind = "json" /\ resp[w].detail # "")

\* C7 (amended): with no backend credential at startup, configuration is never
\* retried, the backend is never called, and every translate request that gets
\* past the before_request hook is answered 503 {detail} whatever its body; a
\* translate request during which the hook's schema setup fails is answered 500
\* by the hook and does not reach the handler.
C7_Disabled ==
    [][~gemini_model =>
        /\ ~gemini_model'
        /\ ~backend_called'
        /\ \A w \in Threads :
            /\ AtHandler(w, "translate")
               => \A body \in TranslateBodies, gen \in GenOutcomes :
                      LET o == translate_text_flask(store, next_id, gemini_model, body, gen)
                      IN /\ o.resp.status = 503
                         /\ o.resp.kind = "json"
                         /\ o.resp.detail # ""
                         /\ ~o.called
                         /\ o.store = store
            /\ (pc'[w] = "done" /\ route'[w] = "translate")
               => \/ /\ resp'[w].ep = "translate"
                     /\ resp'[w].status = 503
                     /\ resp'[w].kind = "json"
                     /\ resp'[w].detail # ""
                  \/ /\ resp'[w].ep = "before_request"
                     /\ resp'[w].status = 500
                     /\ pc[w] \in {"setup", "done"}]_vars

\* C7 witness: a translate request answered 503 by a process started without the
\* credential.
C7_Witness ==
    /\ ~gemini_model
    /\ Done(MainThread, "translate")
    /\ resp[MainThread].status = 503

\* C10: under every interleaving of the threads, the flag is set only once a
\* create_all has succeeded, a handler runs only once a create_all has
\* succeeded, a request that finds the flag unset runs create_all itself before
\* its handler, and a failed create_all leaves the flag as it was and ends the
\* request with 500 without running its handler.
C10_SetupBeforeHandler ==
    [][/\ db_initialized' => tables'
       /\ tables => tables'
       /\ \A w \in Threads :
           /\ pc'[w] \in {"setflag", "handler"} => tables'
           /\ (pc'[w] = "done" /\ resp'[w].ep \in Routes) => tables'
           /\ (pc[w] = "idle" /\ pc'[w] # "idle")
              => pc'[w] = IF db_initialized THEN "handler" ELSE "setup"
           /\ pc'[w] = "handler" => pc[w] \in {"handler", "setflag", "idle"}
           /\ (pc[w] = "setup" /\ pc'[w] # "setup")
              => \/ pc'[w] = "setflag" /\ tables' /\ db_initialized' = db_initialized
                 \/ /\ pc'[w] = "done"
                    /\ resp'[w].ep = "before_request"
                    /\ resp'[w].status = 500
                    /\ db_initialized' = db_initialized
                    /\ tables' = tables
                    /\ store' = store]_vars

\* C10 witness: two first requests have both found the flag unset and both run
\* create_all successfully, so the setup statements were issued twice.
C10_Witness ==
    /\ pc[1] = "setflag"
    /\ pc[2] = "setflag"
    /\ ~db_initialized
    /\ tables

====
